---- MODULE Spec2Model ----
(***************************************************************************)
(* A model of the wasm-audio-processor crate: the mu-law codec             *)
(* (src/mulaw.rs), the sample operations (src/mixer.rs) and the three      *)
(* exported pipelines with their base64 boundary (src/lib.rs).             *)
(*                                                                         *)
(* Every function of the crate is a pure call-and-return function, so the  *)
(* state machine is "one call": Init draws the function and its arguments, *)
(* and one action per function runs it and stores what it returned (and    *)
(* the locals the properties talk about) in ret.                           *)
(*                                                                         *)
(* Numbers.  i16/u8/u16/usize values are integers; every operation that    *)
(* the code performs in a fixed width is modelled with that width (wrap,   *)
(* saturate or clamp exactly as the Rust operation does).  f64 values are  *)
(* kept exact: a volume is a number of halves (1 = 0.5, 2 = 1.0, 4 = 2.0), *)
(* a duration is a whole number of milliseconds that is a multiple of 500, *)
(* so that ms / 1000.0, its product with the sample rate and the product   *)
(* sample * volume are all exactly representable in f64.  A fade factor    *)
(* i / n is not a dyadic number in general; for n <= 9 and every i16       *)
(* sample the f64 product sample * (i / n), truncated by `as i16`, is the  *)
(* truncation of the exact quotient sample * i / n, which is what          *)
(* fade_scale computes.  The model keeps fade counts within that range.    *)
(***************************************************************************)
EXTENDS Integers, Sequences, FiniteSets, TLC

VARIABLES
    pc,     \* "call": the arguments are chosen; "ret": the call has returned
    op,     \* the function being called
    args,   \* its arguments
    ret     \* what it returned, with the locals the properties refer to

vars == <<pc, op, args, ret>>

NoRet == [none |-> TRUE]

-----------------------------------------------------------------------------
(* Fixed-width integer helpers                                             *)

I16_MIN == -32768
I16_MAX == 32767

InI16(x) == I16_MIN <= x /\ x <= I16_MAX
InU8(x) == 0 <= x /\ x <= 255

Abs(x) == IF x < 0 THEN -x ELSE x
Min(a, b) == IF a <= b THEN a ELSE b
Max(a, b) == IF a >= b THEN a ELSE b

\* i32::clamp / the saturating f64 -> i16 cast
Clamp(x, lo, hi) == IF x < lo THEN lo ELSE IF x > hi THEN hi ELSE x

\* two's complement wrap into i16 (what a bit-level shift or a release-build
\* addition leaves in the register)
WrapI16(x) == ((x + 32768) % 65536) - 32768

\* `x as u16` of an i16
AsU16(x) == x % 65536

\* integer division truncating toward zero (the f64 -> integer `as` cast
\* truncates); TLA+'s \div rounds toward minus infinity
TruncDiv(a, b) == IF a >= 0 THEN a \div b ELSE -((-a) \div b)

RECURSIVE Pow2(_)
Pow2(n) == IF n = 0 THEN 1 ELSE 2 * Pow2(n - 1)

\* bitwise operators on naturals
RECURSIVE BitAnd(_, _)
BitAnd(a, b) ==
    IF a = 0 \/ b = 0 THEN 0
    ELSE (a % 2) * (b % 2) + 2 * BitAnd(a \div 2, b \div 2)

RECURSIVE BitOr(_, _)
BitOr(a, b) ==
    IF a = 0 THEN b
    ELSE IF b = 0 THEN a
    ELSE Max(a % 2, b % 2) + 2 * BitOr(a \div 2, b \div 2)

Shr(a, n) == a \div Pow2(n)

\* u8 `!x` and u8 `x << n` (bits shifted out of the byte are dropped)
NotU8(x) == 255 - x
ShlU8(x, n) == (x * Pow2(n)) % 256

-----------------------------------------------------------------------------
(* src/mulaw.rs                                                            *)

MULAW_MAX == 8191
MULAW_BIAS == 33

\* i16::checked_shl: None only when the shift amount is >= the bit width;
\* otherwise the bits are shifted and the ones leaving the 16 bits are lost
checked_shl(v, n) ==
    IF n >= 16 THEN [some |-> FALSE, v |-> 0]
    ELSE [some |-> TRUE, v |-> WrapI16(v * Pow2(n))]

saturating_sub(a, b) == Clamp(a - b, I16_MIN, I16_MAX)
saturating_add(a, b) == Clamp(a + b, I16_MIN, I16_MAX)

\* mulaw.rs:12  let exponent = (mu_law_byte >> 4) & 0x07;
decode_exponent_wide(inverted) == BitAnd(Shr(inverted, 4), 15)
decode_exponent(inverted) == BitAnd(Shr(inverted, 4), 7)

\* mulaw.rs:23-32  the sign is applied last; -i16::MIN is not representable
decode_apply_sign_inverted(sign, sample) ==
    IF sign = 0
    THEN (IF sample = I16_MIN THEN I16_MAX ELSE -sample)
    ELSE sample
decode_apply_sign(sign, sample) ==
    IF sign # 0
    THEN (IF sample = I16_MIN THEN I16_MAX ELSE -sample)
    ELSE sample

\* mu_law_decode with its locals.  The *_exact fields are the values of the
\* arithmetic before any fixed-width effect, so that "does not overflow" is a
\* statement about them.
mu_law_decode_locals(mu_law_byte) ==
    LET inverted == NotU8(mu_law_byte)
        sign == BitAnd(inverted, 128)
        exponent == decode_exponent(inverted)
        mantissa == BitAnd(inverted, 15)
        base_exact == ShlU8(mantissa, 3) + 132
        base == WrapI16(base_exact)
        shl == checked_shl(base, exponent)
        shifted == IF shl.some THEN shl.v ELSE I16_MAX
        sample == saturating_sub(shifted, 132)
        signed_exact == decode_apply_sign(sign, sample)
        value == WrapI16(signed_exact)
    IN  [sign |-> sign, exponent |-> exponent, mantissa |-> mantissa,
         mantissa_shl_exact |-> mantissa * 8,
         base_exact |-> base_exact,
         shifted_exact |-> base * Pow2(exponent),
         shl_some |-> shl.some,
         sub_exact |-> shifted - 132,
         sample |-> sample,
         signed_exact |-> signed_exact,
         value |-> value]

mu_law_decode(mu_law_byte) == mu_law_decode_locals(mu_law_byte).value

\* mulaw.rs:50-56  the exponent search
RECURSIVE find_exponent_fixed_mask(_, _, _)
find_exponent_fixed_mask(sample, exponent, exp_mask) ==
    IF exponent > 0 /\ BitAnd(AsU16(sample), exp_mask) = 0
    THEN find_exponent_fixed_mask(sample, exponent - 1, exp_mask)
    ELSE exponent

RECURSIVE find_exponent(_, _, _)
find_exponent(sample, exponent, exp_mask) ==
    IF exponent > 0 /\ BitAnd(AsU16(sample), exp_mask) = 0
    THEN find_exponent(sample, exponent - 1, Shr(exp_mask, 1))
    ELSE exponent

\* mulaw.rs:40-44  magnitude with i16::MIN special-cased
encode_magnitude(sample) == IF sample = I16_MIN THEN I16_MAX ELSE Abs(sample)

mu_law_encode_locals(sample) ==
    LET sign == IF sample < 0 THEN 128 ELSE 0
        magnitude == encode_magnitude(sample)
        biased == Min(saturating_add(WrapI16(magnitude), MULAW_BIAS), MULAW_MAX)
        exponent == find_exponent(biased, 7, 4096)
        mantissa == BitAnd(Shr(AsU16(biased), exponent + 3), 15)
        packed == BitOr(BitOr(sign, ShlU8(exponent, 4)), mantissa)
        mu_law_byte == NotU8(packed)
    IN  [sign |-> sign,
         magnitude_exact |-> magnitude,
         biased |-> biased,
         exponent |-> exponent,
         shift_amount |-> exponent + 3,
         exponent_shl_exact |-> exponent * 16,
         mantissa |-> mantissa,
         packed |-> packed,
         value |-> BitAnd(mu_law_byte, 255)]

mu_law_encode(sample) == mu_law_encode_locals(sample).value

-----------------------------------------------------------------------------
(* The codec's calls                                                       *)

Bytes == 0..255
Samples == I16_MIN..I16_MAX

InitCodec ==
    /\ pc = "call"
    /\ ret = NoRet
    /\ \/ op = "mu_law_decode" /\ args \in [mu_law_byte : Bytes]
       \/ op = "mu_law_encode" /\ args \in [sample : Samples]
       \/ op = "roundtrip" /\ args \in [i : Samples]

Call_mu_law_decode ==
    /\ pc = "call" /\ op = "mu_law_decode"
    /\ ret' = mu_law_decode_locals(args.mu_law_byte)
    /\ pc' = "ret"
    /\ UNCHANGED <<op, args>>

Call_mu_law_encode ==
    /\ pc = "call" /\ op = "mu_law_encode"
    /\ ret' = mu_law_encode_locals(args.sample)
    /\ pc' = "ret"
    /\ UNCHANGED <<op, args>>

\* mulaw.rs:79-84  the body of the round-trip loop, for one value i
Call_roundtrip ==
    /\ pc = "call" /\ op = "roundtrip"
    /\ LET encoded == mu_law_encode(args.i)
           decoded == mu_law_decode(encoded)
       IN  ret' = [encoded |-> encoded, decoded |-> decoded,
                   diff |-> Abs(args.i - decoded)]
    /\ pc' = "ret"
    /\ UNCHANGED <<op, args>>

NextCodec == Call_mu_law_decode \/ Call_mu_law_encode \/ Call_roundtrip

SpecCodec == InitCodec /\ [][NextCodec]_vars

-----------------------------------------------------------------------------
(* Properties of the codec                                                 *)

Returned(f) == pc = "ret" /\ op = f

\* C3: the codec is total and overflow-free.  For every byte, mu_law_decode
\* returns an i16 and none of its intermediate values (mantissa << 3, the
\* base, base << exponent, the subtraction of 0x84, the negation) leaves
\* its type; for every i16 sample, mu_law_encode returns a byte and none of
\* its intermediate values (absolute value, biased magnitude, shift amount,
\* exponent << 4, the packed byte) leaves its type.
C3_CodecTotalNoOverflow ==
    /\ Returned("mu_law_decode") =>
          /\ InI16(ret.value)
          /\ InU8(ret.mantissa_shl_exact)
          /\ InI16(ret.base_exact)
          /\ ret.shl_some
          /\ InI16(ret.shifted_exact)
          /\ InI16(ret.sub_exact)
          /\ ret.sample = ret.sub_exact
          /\ InI16(ret.signed_exact)
          /\ ret.value = ret.signed_exact
    /\ Returned("mu_law_encode") =>
          /\ InU8(ret.value)
          /\ 0 <= ret.magnitude_exact /\ ret.magnitude_exact <= I16_MAX
          /\ InI16(ret.biased)
          /\ ret.shift_amount < 16
          /\ InU8(ret.exponent_shl_exact)
          /\ InU8(ret.packed)

\* C3 witness: byte 0x00 decodes through the largest shift, 252 << 7.
C3_Witness ==
    /\ Returned("mu_law_decode")
    /\ args.mu_law_byte = 0
    /\ ret.shifted_exact = 32256
    /\ ret.value = -32124

\* C4: the round trip is bounded for every sample, i16::MIN and i16::MAX
\* included: |i - mu_law_decode(mu_law_encode(i))| < 20000.
C4_RoundTripBounded ==
    Returned("roundtrip") =>
        /\ ret.diff = Abs(args.i - ret.decoded)
        /\ ret.diff < 20000

\* C4 witness: i16::MIN has gone round (to -23932).
C4_Witness ==
    /\ Returned("roundtrip")
    /\ args.i = I16_MIN
    /\ ret.decoded = -23932
    /\ ret.diff = 8836

\* bit k of the natural number m
BitIsSet(m, k) == (m \div Pow2(k)) % 2 = 1

\* the largest e in 0..7 with bit (e + offset) of m set, 0 when there is none
LargestExponent(m, offset) ==
    IF \E e \in 0..7 : BitIsSet(m, e + offset)
    THEN CHOOSE e \in 0..7 :
            /\ BitIsSet(m, e + offset)
            /\ \A f \in 0..7 : BitIsSet(m, f + offset) => f <= e
    ELSE 0

\* the biased magnitude as the claim states it
BiasedMagnitude(s) == Min((IF s = I16_MIN THEN 32767 ELSE Abs(s)) + 33, 8191)

\* bits 6-4 of the byte before inversion
PackedExponent(packed) == (packed \div 16) % 8

\* C9 as stated: the packed exponent is the largest e in 0..7 such that
\* bit (e+4) of m = min(|s| + 33, 8191) is set, or 0 when there is none.
C9_ExponentBitE4 ==
    Returned("mu_law_encode") =>
        PackedExponent(ret.packed) = LargestExponent(BiasedMagnitude(args.sample), 4)

\* C9 amended: the packed exponent is the largest e in 0..7 such that
\* bit (e+5) of m = min(|s| + 33, 8191) is set; one always exists.
C9_ExponentBitE5 ==
    Returned("mu_law_encode") =>
        /\ ret.biased = BiasedMagnitude(args.sample)
        /\ \E e \in 0..7 : BitIsSet(ret.biased, e + 5)
        /\ PackedExponent(ret.packed) = LargestExponent(ret.biased, 5)

\* C9 witness: 1000 + 33 = 1033 has bit 10 as its top bit: exponent 5.
C9_Witness ==
    /\ Returned("mu_law_encode")
    /\ args.sample = 1000
    /\ ret.exponent = 5
    /\ PackedExponent(ret.packed) = 5

-----------------------------------------------------------------------------
(* src/mixer.rs                                                            *)

\* `(x) as i16` of an f64 whose exact value is num / den: truncation toward
\* zero, saturating at the i16 bounds
F64AsI16(num, den) == Clamp(TruncDiv(num, den), I16_MIN, I16_MAX)

\* mixer.rs:4-6.  volume is a number of halves.
apply_volume(sample, volume) == F64AsI16(sample * volume, 2)

\* (x as f64 * (num as f64 / den as f64)) as i16, the expression of
\* mixer.rs:25, mixer.rs:32, lib.rs:88 and lib.rs:93.  With den = 0 the
\* factor is NaN (num = 0) or +infinity, and the cast gives 0 or saturates.
fade_scale(x, num, den) ==
    IF den = 0
    THEN (IF num = 0 \/ x = 0 THEN 0 ELSE IF x > 0 THEN I16_MAX ELSE I16_MIN)
    ELSE F64AsI16(x * num, den)

\* mixer.rs:22-26  the fade-in loop
apply_fade_in_from_one(samples, fade_in_samples) ==
    LET length == Len(samples)
        fade_in_end == Min(fade_in_samples, length)
    IN  [k \in 1..length |->
            IF k - 1 < fade_in_end
            THEN fade_scale(samples[k], k, fade_in_samples)
            ELSE samples[k]]
apply_fade_in(samples, fade_in_samples) ==
    LET length == Len(samples)
        fade_in_end == Min(fade_in_samples, length)
    IN  [k \in 1..length |->
            IF k - 1 < fade_in_end
            THEN fade_scale(samples[k], k - 1, fade_in_samples)
            ELSE samples[k]]

\* mixer.rs:28-33  the fade-out loop; length.saturating_sub(fade_out_samples)
apply_fade_out(result, fade_out_samples) ==
    LET length == Len(result)
        fade_out_start == Max(length - fade_out_samples, 0)
    IN  [k \in 1..length |->
            IF k - 1 >= fade_out_start
            THEN fade_scale(result[k], length - 1 - (k - 1), fade_out_samples)
            ELSE result[k]]

\* mixer.rs:10-36
apply_fade(samples, fade_in_samples, fade_out_samples) ==
    IF fade_in_samples = 0 /\ fade_out_samples = 0
    THEN samples
    ELSE apply_fade_out(apply_fade_in(samples, fade_in_samples), fade_out_samples)

\* mixer.rs:40-53
mix_samples_wrapping(samples1, samples2) ==
    LET max_length == Max(Len(samples1), Len(samples2))
    IN  [k \in 1..max_length |->
            LET s1 == IF k <= Len(samples1) THEN samples1[k] ELSE 0
                s2 == IF k <= Len(samples2) THEN samples2[k] ELSE 0
            IN  WrapI16(s1 + s2)]
mix_samples(samples1, samples2) ==
    LET max_length == Max(Len(samples1), Len(samples2))
    IN  [k \in 1..max_length |->
            LET s1 == IF k <= Len(samples1) THEN samples1[k] ELSE 0
                s2 == IF k <= Len(samples2) THEN samples2[k] ELSE 0
                mixed == Clamp(s1 + s2, -32768, 32767)
            IN  WrapI16(mixed)]

-----------------------------------------------------------------------------
(* src/lib.rs: the base64 boundary                                         *)

\* The standard alphabet; a text is a sequence of one-character strings.
B64Alphabet ==
    <<"A","B","C","D","E","F","G","H","I","J","K","L","M","N","O","P",
      "Q","R","S","T","U","V","W","X","Y","Z","a","b","c","d","e","f",
      "g","h","i","j","k","l","m","n","o","p","q","r","s","t","u","v",
      "w","x","y","z","0","1","2","3","4","5","6","7","8","9","+","/">>

B64Char(v) == B64Alphabet[v + 1]
IsB64Symbol(c) == \E k \in 1..64 : B64Alphabet[k] = c
B64Value(c) == (CHOOSE k \in 1..64 : B64Alphabet[k] = c) - 1

\* general_purpose::STANDARD.encode (lib.rs:182): 3 bytes to 4 symbols, the
\* last group padded with "="
RECURSIVE standard_encode(_)
standard_encode(input) ==
    IF Len(input) = 0 THEN <<>>
    ELSE IF Len(input) = 1 THEN
        <<B64Char(input[1] \div 4), B64Char((input[1] % 4) * 16), "=", "=">>
    ELSE IF Len(input) = 2 THEN
        <<B64Char(input[1] \div 4),
          B64Char((input[1] % 4) * 16 + input[2] \div 16),
          B64Char((input[2] % 16) * 4), "=">>
    ELSE
        <<B64Char(input[1] \div 4),
          B64Char((input[1] % 4) * 16 + input[2] \div 16),
          B64Char((input[2] % 16) * 4 + input[3] \div 64),
          B64Char(input[3] % 64)>>
        \o standard_encode(SubSeq(input, 4, Len(input)))

base64_encode(input) == standard_encode(input)

\* the bytes of whole quads of symbols
RECURSIVE decode_quads(_)
decode_quads(symbols) ==
    IF Len(symbols) < 4 THEN <<>>
    ELSE LET a == B64Value(symbols[1])
             b == B64Value(symbols[2])
             c == B64Value(symbols[3])
             d == B64Value(symbols[4])
         IN  <<a * 4 + b \div 16, (b % 16) * 16 + c \div 4, (c % 4) * 64 + d>>
             \o decode_quads(SubSeq(symbols, 5, Len(symbols)))

\* general_purpose::STANDARD.decode (lib.rs:176-177): canonical padding is
\* required, "=" may only end the text, every other character must be a
\* symbol of the alphabet, and the bits of the last symbol that belong to no
\* byte must be zero.  ok = FALSE is the library's Err.
standard_decode(input) ==
    LET n == Len(input)
        Err == [ok |-> FALSE, bytes |-> <<>>]
        pad == IF n >= 2 /\ input[n] = "=" /\ input[n - 1] = "=" THEN 2
               ELSE IF n >= 1 /\ input[n] = "=" THEN 1
               ELSE 0
        symbols == SubSeq(input, 1, n - pad)
        whole == SubSeq(symbols, 1, 4 * (Len(symbols) \div 4))
        rest == SubSeq(symbols, 4 * (Len(symbols) \div 4) + 1, Len(symbols))
    IN  IF n % 4 # 0 THEN Err
        ELSE IF \E k \in 1..Len(symbols) : ~IsB64Symbol(symbols[k]) THEN Err
        ELSE IF pad = 0 THEN [ok |-> TRUE, bytes |-> decode_quads(whole)]
        ELSE IF pad = 1 THEN
            LET a == B64Value(rest[1])
                b == B64Value(rest[2])
                c == B64Value(rest[3])
            IN  IF c % 4 # 0 THEN Err
                ELSE [ok |-> TRUE,
                      bytes |-> decode_quads(whole)
                                \o <<a * 4 + b \div 16, (b % 16) * 16 + c \div 4>>]
        ELSE
            LET a == B64Value(rest[1])
                b == B64Value(rest[2])
            IN  IF b % 16 # 0 THEN Err
                ELSE [ok |-> TRUE,
                      bytes |-> decode_quads(whole) \o <<a * 4 + b \div 16>>]

\* lib.rs:175-179  .decode(input).unwrap_or_default()
base64_decode_silence_default(input) ==
    LET r == standard_decode(input) IN IF r.ok THEN r.bytes ELSE <<255>>
base64_decode(input) ==
    LET r == standard_decode(input) IN IF r.ok THEN r.bytes ELSE <<>>

-----------------------------------------------------------------------------
(* src/lib.rs: the pipelines                                               *)

\* lib.rs:66-67 and lib.rs:169  ((ms / 1000.0) * sample_rate) as usize, for
\* a non-negative duration that is a multiple of 500 ms
duration_samples(ms, sample_rate) == (ms * sample_rate) \div 1000

\* lib.rs:70-78, 146-149  decode every byte
decode_bytes(bytes) == [k \in 1..Len(bytes) |-> mu_law_decode(bytes[k])]

\* lib.rs:131-134, 158-161  encode every sample
encode_samples(samples) == [k \in 1..Len(samples) |-> mu_law_encode(samples[k])]

\* usize subtraction a - b (lib.rs:91).  When b > a the subtraction leaves
\* the type: a build with overflow checks panics, a build without them
\* wraps.  The wrapped value 2^w + (a - b) is carried as the negative number
\* a - b; it is larger than every index of a buffer.
usize_sub(a, b) == [overflow |-> b > a, v |-> a - b]
usize_ge(i, v) == IF v < 0 THEN FALSE ELSE i >= v

\* lib.rs:84-96  the body of the overlay loop for index i, after the volume
\* scaling: scaled is apply_volume(sample, whisper_volume)
whisper_fade_both(i, scaled, whisper_len, fade_in_samples, fade_out_samples, overflow_checks) ==
    LET faded_in == IF i < fade_in_samples /\ fade_in_samples > 0
                    THEN fade_scale(scaled, i, fade_in_samples)
                    ELSE scaled
        start == usize_sub(whisper_len, fade_out_samples)
    IN  IF start.overflow /\ overflow_checks
        THEN [panicked |-> TRUE, overflow |-> TRUE, scaled |-> 0]
        ELSE IF usize_ge(i, start.v) /\ fade_out_samples > 0
        THEN [panicked |-> FALSE, overflow |-> start.overflow,
              scaled |-> fade_scale(faded_in, whisper_len - 1 - i, fade_out_samples)]
        ELSE [panicked |-> FALSE, overflow |-> start.overflow, scaled |-> faded_in]
whisper_fade_late_end(i, scaled, whisper_len, fade_in_samples, fade_out_samples, overflow_checks) ==
    IF i < fade_in_samples /\ fade_in_samples > 0
    THEN [panicked |-> FALSE, overflow |-> FALSE,
          scaled |-> fade_scale(scaled, i, fade_in_samples)]
    ELSE
        LET start == usize_sub(whisper_len, fade_out_samples)
        IN  IF start.overflow /\ overflow_checks
            THEN [panicked |-> TRUE, overflow |-> TRUE, scaled |-> 0]
            ELSE IF usize_ge(i, start.v) /\ fade_out_samples > 0
            THEN [panicked |-> FALSE, overflow |-> start.overflow,
                  scaled |-> fade_scale(scaled, whisper_len - i, fade_out_samples)]
            ELSE [panicked |-> FALSE, overflow |-> start.overflow, scaled |-> scaled]
whisper_fade(i, scaled, whisper_len, fade_in_samples, fade_out_samples, overflow_checks) ==
    IF i < fade_in_samples /\ fade_in_samples > 0
    THEN [panicked |-> FALSE, overflow |-> FALSE,
          scaled |-> fade_scale(scaled, i, fade_in_samples)]
    ELSE
        LET start == usize_sub(whisper_len, fade_out_samples)
        IN  IF start.overflow /\ overflow_checks
            THEN [panicked |-> TRUE, overflow |-> TRUE, scaled |-> 0]
            ELSE IF usize_ge(i, start.v) /\ fade_out_samples > 0
            THEN [panicked |-> FALSE, overflow |-> start.overflow,
                  scaled |-> fade_scale(scaled, whisper_len - 1 - i, fade_out_samples)]
            ELSE [panicked |-> FALSE, overflow |-> start.overflow, scaled |-> scaled]

\* lib.rs:100-108  the original stream gets its volume and no fade
scale_original(original_samples, original_volume) ==
    IF original_volume # 2
    THEN [k \in 1..Len(original_samples) |->
            apply_volume(original_samples[k], original_volume)]
    ELSE original_samples

\* lib.rs:110-128  the mix stage
mix_stage(scaled_original, scaled_whisper) ==
    LET max_length == Max(Len(scaled_original), Len(scaled_whisper))
    IN  [k \in 1..max_length |->
            LET original == IF k <= Len(scaled_original) THEN scaled_original[k] ELSE 0
                whisper == IF k <= Len(scaled_whisper) THEN scaled_whisper[k] ELSE 0
                mixed == original + whisper
            IN  WrapI16(Clamp(mixed, -32768, 32767))]

\* lib.rs:56-138  mix_audio_streams with its locals.  config is the
\* AudioMixerConfig (lib.rs:18-24); overflow_checks is the build's setting.
\* A panic ends the call: nothing is returned.
mix_audio_streams_locals(original_audio, whisper_audio, config, overflow_checks) ==
    LET original_bytes == base64_decode(original_audio)
        whisper_bytes == base64_decode(whisper_audio)
        fade_in_samples == duration_samples(config.fade_in_ms, config.sample_rate)
        fade_out_samples == duration_samples(config.fade_out_ms, config.sample_rate)
        original_samples == decode_bytes(original_bytes)
        whisper_samples == decode_bytes(whisper_bytes)
        whisper_len == Len(whisper_samples)
        volume_scaled == [k \in 1..whisper_len |->
                            apply_volume(whisper_samples[k], config.whisper_volume)]
        steps == [k \in 1..whisper_len |->
                    whisper_fade(k - 1, volume_scaled[k], whisper_len,
                                 fade_in_samples, fade_out_samples, overflow_checks)]
        panicked == \E k \in 1..whisper_len : steps[k].panicked
        scaled_whisper == [k \in 1..whisper_len |-> steps[k].scaled]
        scaled_original == scale_original(original_samples, config.original_volume)
        mixed_samples == mix_stage(scaled_original, scaled_whisper)
        mixed_bytes == encode_samples(mixed_samples)
        locals == [overflow_checks |-> overflow_checks,
                   original_bytes |-> original_bytes,
                   whisper_bytes |-> whisper_bytes,
                   fade_in_samples |-> fade_in_samples,
                   fade_out_samples |-> fade_out_samples,
                   original_samples |-> original_samples,
                   whisper_samples |-> whisper_samples,
                   volume_scaled |-> volume_scaled]
    IN  IF panicked
        THEN locals @@ [panicked |-> TRUE, index_overflow |-> TRUE]
        ELSE locals @@
             [panicked |-> FALSE,
              index_overflow |-> \E k \in 1..whisper_len : steps[k].overflow,
              scaled_whisper |-> scaled_whisper,
              scaled_original |-> scaled_original,
              mixed_samples |-> mixed_samples,
              mixed_bytes |-> mixed_bytes,
              value |-> base64_encode(mixed_bytes)]

\* lib.rs:142-164
reduce_volume_locals(audio, volume) ==
    LET bytes == base64_decode(audio)
        samples == decode_bytes(bytes)
        scaled == [k \in 1..Len(samples) |-> apply_volume(samples[k], volume)]
        output == encode_samples(scaled)
    IN  [bytes |-> bytes, samples |-> samples, scaled |-> scaled,
         output |-> output, value |-> base64_encode(output)]

\* lib.rs:168-172
create_silence_locals(duration_ms, sample_rate) ==
    LET num_samples == duration_samples(duration_ms, sample_rate)
        silence == [k \in 1..num_samples |-> 255]
    IN  [num_samples |-> num_samples, silence |-> silence,
         value |-> base64_encode(silence)]

-----------------------------------------------------------------------------
(* The inputs of the audio calls                                           *)

MaxOriginalLen == 1
MaxWhisperLen == 3
MaxFadeHalfSeconds == 4
MaxFadeCount == 4
MaxMixLen == 2
MaxTextLen == 4

SeqsUpTo(S, n) == UNION {[1..k -> S] : k \in 0..n}

\* mu-law bytes: 0x80 decodes to 32124, 0x00 to -32124, 0x7E to -8
OriginalBytes == {128, 0}
WhisperBytes == {128, 126}

\* texts that are not the encoding of any buffer: a bad length, a character
\* outside the alphabet
MalformedOriginal == <<"g">>
MalformedWhisper == <<"g", "A", "*", "=">>

OriginalTexts ==
    {base64_encode(b) : b \in SeqsUpTo(OriginalBytes, MaxOriginalLen)}
        \cup {MalformedOriginal}
WhisperTexts ==
    {base64_encode(b) : b \in SeqsUpTo(WhisperBytes, MaxWhisperLen)}
        \cup {MalformedWhisper}

\* volumes in halves: 0.5, 1.0, 2.0
WhisperVolumes == {1, 4}
OriginalVolumes == {2, 4}
Volumes == {0, 1, 2, 3, 4}
FadeDurations == {500 * h : h \in 0..MaxFadeHalfSeconds}
SampleRates == {1, 2}
ConfigSampleRates == {2}

Configs ==
    [whisper_volume : WhisperVolumes, original_volume : OriginalVolumes,
     fade_in_ms : FadeDurations, fade_out_ms : FadeDurations,
     sample_rate : ConfigSampleRates]

\* every text of up to MaxTextLen characters over a few characters: symbols
\* whose low bits are and are not zero, the padding and a foreign character
TextChars == {"g", "A", "B", "=", "*"}
Texts == SeqsUpTo(TextChars, MaxTextLen)

FadeInputs == {-32768, -8, 100, 32767}
MixInputs == {-32768, -1, 1000, 32767}

InitAudio ==
    /\ pc = "call"
    /\ ret = NoRet
    /\ \/ /\ op = "mix_audio_streams"
          /\ args \in [original_audio : OriginalTexts, whisper_audio : WhisperTexts,
                       config : Configs]
       \/ /\ op = "reduce_volume"
          /\ args \in [audio : OriginalTexts \cup WhisperTexts, volume : Volumes]
       \/ /\ op = "create_silence"
          /\ args \in [duration_ms : FadeDurations, sample_rate : SampleRates]
       \/ /\ op = "base64_decode"
          /\ args \in [input : Texts]
       \/ /\ op = "apply_volume"
          /\ args \in [sample : FadeInputs \cup MixInputs, volume : Volumes]
       \/ /\ op = "apply_fade"
          /\ args \in [samples : SeqsUpTo(FadeInputs, MaxWhisperLen),
                       fade_in_samples : 0..MaxFadeCount,
                       fade_out_samples : 0..MaxFadeCount]
       \/ /\ op = "mix_samples"
          /\ args \in [samples1 : SeqsUpTo(MixInputs, MaxMixLen),
                       samples2 : SeqsUpTo(MixInputs, MaxMixLen)]

Return(value) ==
    /\ ret' = value
    /\ pc' = "ret"
    /\ UNCHANGED <<op, args>>

Call_mix_audio_streams ==
    /\ pc = "call" /\ op = "mix_audio_streams"
    /\ \E overflow_checks \in BOOLEAN :
          Return(mix_audio_streams_locals(args.original_audio, args.whisper_audio,
                                          args.config, overflow_checks))

Call_reduce_volume ==
    /\ pc = "call" /\ op = "reduce_volume"
    /\ Return(reduce_volume_locals(args.audio, args.volume))

Call_create_silence ==
    /\ pc = "call" /\ op = "create_silence"
    /\ Return(create_silence_locals(args.duration_ms, args.sample_rate))

Call_base64_decode ==
    /\ pc = "call" /\ op = "base64_decode"
    /\ Return([value |-> base64_decode(args.input)])

Call_apply_volume ==
    /\ pc = "call" /\ op = "apply_volume"
    /\ Return([value |-> apply_volume(args.sample, args.volume)])

Call_apply_fade ==
    /\ pc = "call" /\ op = "apply_fade"
    /\ Return([value |-> apply_fade(args.samples, args.fade_in_samples,
                                    args.fade_out_samples)])

Call_mix_samples ==
    /\ pc = "call" /\ op = "mix_samples"
    /\ Return([value |-> mix_samples(args.samples1, args.samples2)])

NextAudio ==
    \/ Call_mix_audio_streams
    \/ Call_reduce_volume
    \/ Call_create_silence
    \/ Call_base64_decode
    \/ Call_apply_volume
    \/ Call_apply_fade
    \/ Call_mix_samples

SpecAudio == InitAudio /\ [][NextAudio]_vars

\* the whole crate
Init == InitCodec \/ InitAudio
Next == NextCodec \/ NextAudio
Spec == Init /\ [][Next]_vars

-----------------------------------------------------------------------------
(* Properties of the sample operations and the pipelines                   *)

\* the locals of a returned mix_audio_streams call
WhisperLen == Len(ret.whisper_samples)
FadeIn == ret.fade_in_samples
FadeOut == ret.fade_out_samples

\* C1 as stated: mix_audio_streams is total.  For every original buffer,
\* overlay buffer and pair of fade counts the call returns a buffer, and no
\* unsigned index computation of the overlay pass leaves its type.
C1_MixAudioStreamsTotal ==
    Returned("mix_audio_streams") =>
        /\ ~ret.panicked
        /\ ~ret.index_overflow

SampleAt(s, k) == IF k <= Len(s) THEN s[k] ELSE 0

IsSaturatingMix(out, a, b) ==
    /\ Len(out) = Max(Len(a), Len(b))
    /\ \A k \in 1..Len(out) :
          /\ out[k] = Clamp(SampleAt(a, k) + SampleAt(b, k), -32768, 32767)
          /\ InI16(out[k])
          /\ k > Len(a) => out[k] = b[k]
          /\ k > Len(b) => out[k] = a[k]

\* C2: mix_samples and the mix stage of mix_audio_streams return a buffer of
\* length max(len A, len B) whose element at every index is
\* clamp(a_i + b_i, -32768, 32767), a missing element counting as 0: every
\* output sample is an i16, order is kept, and the tail past the shorter
\* buffer is the longer buffer's tail.
C2_MixSaturates ==
    /\ Returned("mix_samples") =>
          IsSaturatingMix(ret.value, args.samples1, args.samples2)
    /\ (Returned("mix_audio_streams") /\ ~ret.panicked) =>
          IsSaturatingMix(ret.mixed_samples, ret.scaled_original, ret.scaled_whisper)

\* C2 witness: a sum above i16::MAX was clamped and the longer buffer's
\* tail passed through.
C2_Witness ==
    /\ Returned("mix_samples")
    /\ args.samples1 = <<32767>>
    /\ args.samples2 = <<32767, -1>>
    /\ ret.value = <<32767, -1>>

\* C5 as stated: create_silence's buffer of count bytes is the buffer that
\* running count zero samples through mu_law_encode gives
\* (mu_law_encode(0) = 0xFF).
C5_SilenceIsEncodedZero ==
    Returned("create_silence") =>
        ret.silence = [k \in 1..ret.num_samples |-> mu_law_encode(0)]

Malformed(text) == ~standard_decode(text).ok
EmptyAudioText == base64_encode(<<>>)

\* C6: malformed base64 text produces no error.  base64_decode returns the
\* empty buffer for it, and mix_audio_streams (for either audio argument)
\* and reduce_volume return exactly what they return for the encoding of
\* empty audio, whatever the other arguments are.
C6_MalformedIsEmptyAudio ==
    /\ (Returned("base64_decode") /\ Malformed(args.input)) =>
          ret.value = <<>>
    /\ (Returned("mix_audio_streams") /\ Malformed(args.original_audio)) =>
          ret = mix_audio_streams_locals(EmptyAudioText, args.whisper_audio,
                                         args.config, ret.overflow_checks)
    /\ (Returned("mix_audio_streams") /\ Malformed(args.whisper_audio)) =>
          ret = mix_audio_streams_locals(args.original_audio, EmptyAudioText,
                                         args.config, ret.overflow_checks)
    /\ (Returned("reduce_volume") /\ Malformed(args.audio)) =>
          ret = reduce_volume_locals(EmptyAudioText, args.volume)

\* C6 witness: a malformed overlay was mixed as empty audio: the original
\* stream (one sample, volume 1.0) came back alone.
C6_Witness ==
    /\ Returned("mix_audio_streams")
    /\ args.whisper_audio = MalformedWhisper
    /\ args.original_audio = base64_encode(<<128>>)
    /\ args.config.original_volume = 2
    /\ ret.whisper_bytes = <<>>
    /\ ret.mixed_samples = <<32124>>

\* C7: with fade-out count F <= overlay length L, the overlay sample at
\* index i gets at most one fade scaling after its volume scaling: i/N when
\* i < N, otherwise (L-1-i)/F when i >= L - F, otherwise none; the original
\* stream gets its volume scaling only.
C7_OneFadePerSample ==
    (Returned("mix_audio_streams") /\ FadeOut <= WhisperLen) =>
        /\ ~ret.panicked
        /\ Len(ret.scaled_whisper) = WhisperLen
        /\ \A k \in 1..WhisperLen :
              LET i == k - 1
                  v == apply_volume(ret.whisper_samples[k], args.config.whisper_volume)
              IN  ret.scaled_whisper[k] =
                      IF i < FadeIn THEN F64AsI16(v * i, FadeIn)
                      ELSE IF i >= WhisperLen - FadeOut
                           THEN F64AsI16(v * (WhisperLen - 1 - i), FadeOut)
                      ELSE v
        /\ Len(ret.scaled_original) = Len(ret.original_samples)
        /\ \A k \in 1..Len(ret.original_samples) :
              ret.scaled_original[k] =
                  apply_volume(ret.original_samples[k], args.config.original_volume)

\* C7 witness: L = 3, N = 2, F = 3: index 1 lies in both windows and got
\* the fade-in factor 1/2 only (16062 -> 8031, not 2677).
C7_Witness ==
    /\ Returned("mix_audio_streams")
    /\ FadeIn = 2 /\ FadeOut = 3
    /\ ret.volume_scaled = <<16062, 16062, 16062>>
    /\ ret.scaled_whisper = <<0, 8031, 0>>

FadeEndpointsSilenced(samples, fade_in, fade_out) ==
    /\ fade_in > 0 => samples[1] = 0
    /\ fade_out > 0 => samples[Len(samples)] = 0

\* C8 as stated: in apply_fade and in the overlay pass of mix_audio_streams,
\* for every non-empty buffer and every combination of fade counts, the
\* faded sample at index 0 is 0 when the fade-in count is > 0 and the faded
\* sample at the last index is 0 when the fade-out count is > 0.
C8_FadeEndpointsSilenced ==
    /\ (Returned("apply_fade") /\ Len(args.samples) > 0) =>
          FadeEndpointsSilenced(ret.value, args.fade_in_samples, args.fade_out_samples)
    /\ (Returned("mix_audio_streams") /\ WhisperLen > 0) =>
          /\ ~ret.panicked
          /\ FadeEndpointsSilenced(ret.scaled_whisper, FadeIn, FadeOut)

\* C8 amended: apply_fade silences both endpoints for every combination of
\* counts.  The overlay pass, for a fade-out count F <= L, silences index 0
\* when N > 0, and silences the last index when F > 0 and the last index is
\* not a fade-in index other than 0 (N < L or L = 1): fade-in takes
\* precedence there.
C8_FadeEndpointsSilencedOutsideFadeIn ==
    /\ (Returned("apply_fade") /\ Len(args.samples) > 0) =>
          FadeEndpointsSilenced(ret.value, args.fade_in_samples, args.fade_out_samples)
    /\ (Returned("mix_audio_streams") /\ WhisperLen > 0 /\ FadeOut <= WhisperLen) =>
          /\ ~ret.panicked
          /\ FadeIn > 0 => ret.scaled_whisper[1] = 0
          /\ (FadeOut > 0 /\ (FadeIn < WhisperLen \/ WhisperLen = 1)) =>
                ret.scaled_whisper[WhisperLen] = 0

\* C8 witness: both endpoints of a three-sample overlay were silenced.
C8_Witness ==
    /\ Returned("mix_audio_streams")
    /\ FadeIn = 1 /\ FadeOut = 1
    /\ ret.volume_scaled = <<16062, 16062, 16062>>
    /\ ret.scaled_whisper = <<0, 16062, 0>>

\* C10 as stated: for every buffer of volume-scaled samples and every pair
\* of fade counts, apply_fade gives the buffer the overlay loop of
\* mix_audio_streams gives.
C10_ApplyFadeIsOverlayFade ==
    Returned("mix_audio_streams") =>
        /\ ~ret.panicked
        /\ ret.scaled_whisper = apply_fade(ret.volume_scaled, FadeIn, FadeOut)

\* no index of a buffer of length n lies in both fade windows
WindowsDisjoint(n, fade_in, fade_out) ==
    fade_in = 0 \/ fade_out = 0 \/ fade_in + fade_out <= n

\* C10 amended: apply_fade gives the buffer the overlay loop gives whenever
\* no index lies in both fade windows and the fade-out count does not
\* exceed the buffer length.
C10_ApplyFadeIsOverlayFadeWhenDisjoint ==
    (/\ Returned("mix_audio_streams")
     /\ FadeOut <= WhisperLen
     /\ WindowsDisjoint(WhisperLen, FadeIn, FadeOut)) =>
        /\ ~ret.panicked
        /\ ret.scaled_whisper = apply_fade(ret.volume_scaled, FadeIn, FadeOut)

\* C10 witness: disjoint windows N = 1, F = 2 on three samples.
C10_Witness ==
    /\ Returned("mix_audio_streams")
    /\ FadeIn = 1 /\ FadeOut = 2
    /\ ret.volume_scaled = <<16062, 16062, 16062>>
    /\ ret.scaled_whisper = <<0, 8031, 0>>
    /\ apply_fade(ret.volume_scaled, 1, 2) = <<0, 8031, 0>>

====
